---- MODULE Spec2Model ----
(***************************************************************************)
(* still-canvas: the stroke renderer (js/paintEngine.js), the application  *)
(* glue that drives it (js/app.js) and the image analyzer                  *)
(* (js/imageAnalyzer.js), as state machines.                               *)
(*                                                                         *)
(* Conventions.  A fragment of the renderer is modelled by its width (the  *)
(* only field the animation state machine reads); fragment k of the        *)
(* JavaScript array (0-based) is fragments[k + 1].  The render surface is  *)
(* the set of <<fragment index, column>> pairs that are visible.  The      *)
(* browser's requestAnimationFrame queue is part of the state: rafLatest   *)
(* says whether the callback whose id is stored in animationId is still    *)
(* pending, rafOrphans counts pending callbacks whose id was overwritten.  *)
(***************************************************************************)
EXTENDS Integers, Sequences, FiniteSets, TLC

VARIABLES
    pe,        \* the PaintEngine instance, its canvas and its pending frame callbacks
    lastOp,    \* name of the last operation that ran (observation only)
    cycle,     \* progress of an undisturbed draw -> erase cycle (observation only)
    app,       \* the StillCanvasApp instance and its pending timers
    sq,        \* sortFragmentsSpatially: its locals
    gen        \* createOrganicFragments: its locals

vars == <<pe, lastOp, cycle, app, sq, gen>>

-----------------------------------------------------------------------------
(* Bounds of the model.                                                    *)

\* pending frame callbacks whose id was overwritten: calls that would leave
\* more are not taken
MaxOrphans == 1

\* length of the log of swept columns kept per fragment (longer sweeps saturate)
SweepLog == 8

\* fragment sequences handed to load(): empty, one narrow, one wide (two
\* ticks per sweep), mixed, and five fragments
Sequences == { << >>, <<1>>, <<6>>, <<11>>, <<6, 2>>, <<1, 1, 1, 1, 1>> }

\* values handed to setSpeed()
Speeds == {1, 50}

-----------------------------------------------------------------------------
(* Helpers.                                                                *)

Max(a, b) == IF a > b THEN a ELSE b

Min(a, b) == IF a < b THEN a ELSE b

\* Math.ceil(a / b) for a >= 0, b > 0
CeilDiv(a, b) == (a + b - 1) \div b

\* the <<index, column>> pairs of fragment `index` (0-based) of engine s
Cells(s, index) == { <<index, c>> : c \in 0 .. (s.fragments[index + 1] - 1) }

-----------------------------------------------------------------------------
(* PaintEngine.                                                            *)

\* the state after the constructor
constructor ==
    [ fragments |-> << >>,
      currentIndex |-> 0,
      isPlaying |-> FALSE,
      isPaused |-> FALSE,
      animationId |-> FALSE,          \* FALSE: null, TRUE: an id
      speed |-> 50,
      fragmentsPerFrame |-> 1,
      isErasing |-> FALSE,
      drawnFragments |-> << >>,
      currentFragmentColumn |-> 0,
      currentFragmentDirection |-> 1,
      \* host state
      rafLatest |-> FALSE,
      rafOrphans |-> 0,
      canvas |-> {},
      \* observations of the last call
      progress |-> << >>,             \* arguments of the onProgress of the call
      completed |-> 0,                \* onComplete invocations during the call
      pass |-> "none",                \* what the call completed: "draw", "erase", "all"
      threw |-> FALSE,                \* the call ended with a TypeError
      processed |-> FALSE,            \* the call was a frame with deltaTime >= 16.67
      \* observations of the sweep
      swept |-> << >>,                \* columns composited on the fragment under the sweep
      picks |-> 0,                    \* sweep directions drawn for it
      lastSweep |-> << >> ]           \* <<index, width, direction, swept, picks>> of the last completed sweep

\* a call enters the engine: the per-call observations start afresh
Call(s) == [s EXCEPT !.progress = << >>, !.completed = 0, !.pass = "none",
                     !.threw = FALSE, !.processed = FALSE]

\* the listener handed the two arguments the other way round
onProgressSwapped(s, current, total) == [s EXCEPT !.progress = <<total, current>>]

onProgress(s, current, total) == [s EXCEPT !.progress = <<current, total>>]

onComplete(s, pass) == [s EXCEPT !.completed = @ + 1, !.pass = pass]

requestAnimationFrame(s) ==
    [s EXCEPT !.animationId = TRUE,
              !.rafOrphans = @ + (IF s.rafLatest THEN 1 ELSE 0),
              !.rafLatest = TRUE]

\* cancels the callback whose id is animationId; a no-op when it already ran
cancelAnimationFrame(s) == [s EXCEPT !.rafLatest = FALSE]

updateFragmentsPerFrame(s) ==
    [s EXCEPT !.fragmentsPerFrame = Max(1, s.speed \div 5)]

load(s, frags) ==
    updateFragmentsPerFrame(
        [s EXCEPT !.fragments = frags,
                  !.currentIndex = 0,
                  !.isPlaying = FALSE,
                  !.isPaused = FALSE,
                  !.isErasing = FALSE,
                  !.drawnFragments = << >>,
                  !.currentFragmentColumn = 0,
                  !.currentFragmentDirection = 1,
                  !.canvas = {},
                  !.swept = << >>, !.picks = 0, !.lastSweep = << >>])

pause(s) ==
    LET p == [s EXCEPT !.isPaused = TRUE]
    IN  IF p.animationId
        THEN [cancelAnimationFrame(p) EXCEPT !.animationId = FALSE]
        ELSE p

\* drawFragmentColumn: composites one column, nothing outside [0, width)
drawFragmentColumn(s, index, column) ==
    IF column < 0 \/ column >= s.fragments[index + 1]
    THEN s
    ELSE [s EXCEPT !.canvas = @ \cup {<<index, column>>},
                   !.swept = IF Len(@) < SweepLog THEN Append(@, column) ELSE @]

\* drawFragment (stroke composite) and drawFragmentDirect (direct composite)
\* both paint the whole buffer of the fragment
drawFragment(s, index) == [s EXCEPT !.canvas = @ \cup Cells(s, index)]

drawFragmentDirect(s, index) == [s EXCEPT !.canvas = @ \cup Cells(s, index)]

RECURSIVE redraw(_, _, _)
\* the for loop of eraseFragment: i from `i` while i < index
redraw(s, i, index) ==
    IF i < index THEN redraw(drawFragmentDirect(s, i), i + 1, index) ELSE s

\* eraseFragment without the fillRect that clears the canvas
eraseFragmentNoClear(s, index) == redraw(s, 0, index)

eraseFragment(s, index) == redraw([s EXCEPT !.canvas = {}], 0, index)

\* the erase loop with the currentIndex-- left out: one pass of the body
eraseLoopKeepIndex(s, fragmentsErased) ==
    IF fragmentsErased < s.fragmentsPerFrame /\ s.currentIndex >= 0
    THEN eraseFragment(s, s.currentIndex)
    ELSE s

RECURSIVE eraseLoop(_, _)
\* the while loop of the erase branch of animate
eraseLoop(s, fragmentsErased) ==
    IF fragmentsErased < s.fragmentsPerFrame /\ s.currentIndex >= 0
    THEN eraseLoop([eraseFragment(s, s.currentIndex) EXCEPT !.currentIndex = @ - 1],
                   fragmentsErased + 1)
    ELSE s

\* the fragment at currentIndex is complete
fragmentComplete(s) ==
    [s EXCEPT !.currentFragmentColumn = 0,
              !.currentIndex = @ + 1,
              !.drawnFragments = Append(@, s.currentIndex),
              !.lastSweep = <<s.currentIndex, s.fragments[s.currentIndex + 1],
                              s.currentFragmentDirection, s.swept, s.picks>>,
              !.swept = << >>, !.picks = 0]

\* one iteration of the while loop of the draw branch: the column is
\* composited and the column index moves one step in the sweep direction
columnStep(s) ==
    [drawFragmentColumn(s, s.currentIndex, s.currentFragmentColumn)
        EXCEPT !.currentFragmentColumn = @ + s.currentFragmentDirection]

\* the sweep has left the fragment on the side it was heading to
sweepDone(m, width) ==
    \/ m.currentFragmentDirection = 1 /\ m.currentFragmentColumn >= width
    \/ m.currentFragmentDirection = -1 /\ m.currentFragmentColumn < 0

RECURSIVE columnLoop(_, _, _, _)
\* the while loop of the draw branch of animate; m is the state after one
\* iteration (the break leaves the loop with the fragment complete)
columnLoop(s, width, adaptiveColumnsPerFrame, columnsDrawn) ==
    IF columnsDrawn < adaptiveColumnsPerFrame
    THEN CHOOSE r \in { IF sweepDone(m, width)
                        THEN fragmentComplete(m)
                        ELSE columnLoop(m, width, adaptiveColumnsPerFrame,
                                        columnsDrawn + 1) :
                        m \in { columnStep(s) } } : TRUE
    ELSE s

\* "Start new fragment - choose random direction": taken whenever the column is 0
chooseDirection(s, width, rnd) ==
    IF s.currentFragmentColumn = 0
    THEN [s EXCEPT !.currentFragmentDirection = rnd,
                   !.currentFragmentColumn = IF rnd = -1 THEN width - 1 ELSE @,
                   !.picks = Min(@ + 1, SweepLog)]
    ELSE s

\* the draw branch of animate for the fragment at currentIndex;
\* rnd is the outcome of Math.random() > 0.5 ? 1 : -1
drawBranch(s, rnd) ==
    IF s.currentIndex < Len(s.fragments)
    THEN LET width == s.fragments[s.currentIndex + 1]
         IN  columnLoop(chooseDirection(s, width, rnd), width,
                        Max(5, CeilDiv(width, 10)), 0)
    ELSE s

\* animate: `due` is deltaTime >= 16.67
animate(s, due, rnd) ==
    IF ~s.isPlaying \/ s.isPaused THEN s
    ELSE IF ~due THEN requestAnimationFrame(s)
    ELSE IF s.isErasing
    THEN LET e == eraseLoop([s EXCEPT !.processed = TRUE], 0)
             n == onProgress(e, Max(0, e.currentIndex + 1), Len(e.fragments))
         IN  IF n.currentIndex < 0
             THEN onComplete([n EXCEPT !.isErasing = FALSE,
                                       !.currentIndex = 0,
                                       !.drawnFragments = << >>], "erase")
             ELSE requestAnimationFrame(n)
    ELSE LET d == drawBranch([s EXCEPT !.processed = TRUE], rnd)
             n == onProgress(d, d.currentIndex, Len(d.fragments))
         IN  IF n.currentIndex >= Len(n.fragments)
             THEN onComplete([n EXCEPT !.isPlaying = FALSE], "draw")
             ELSE requestAnimationFrame(n)

\* start, resume and startErasing set lastFrameTime = performance.now() and call
\* animate() at once: deltaTime is below 16.67 there, the call only schedules
\* start with the isPaused = false left out
startKeepsPaused(s) ==
    IF s.isPlaying /\ ~s.isPaused THEN s
    ELSE animate([s EXCEPT !.isPlaying = TRUE], FALSE, 1)

start(s) ==
    IF s.isPlaying /\ ~s.isPaused THEN s
    ELSE animate([s EXCEPT !.isPlaying = TRUE, !.isPaused = FALSE], FALSE, 1)

\* resume starting the sweep of the fragment over
resumeRestartsSweep(s) ==
    IF ~s.isPaused THEN s
    ELSE animate([s EXCEPT !.isPaused = FALSE, !.currentFragmentColumn = 0], FALSE, 1)

resume(s) ==
    IF ~s.isPaused THEN s
    ELSE animate([s EXCEPT !.isPaused = FALSE], FALSE, 1)

\* reset with the isErasing = false left out
resetKeepsErasing(s) ==
    LET p == pause(s)
        r == [p EXCEPT !.currentIndex = 0,
                       !.isPlaying = FALSE,
                       !.isPaused = FALSE,
                       !.drawnFragments = << >>,
                       !.currentFragmentColumn = 0,
                       !.currentFragmentDirection = 1,
                       !.canvas = {},
                       !.swept = << >>, !.picks = 0, !.lastSweep = << >>]
    IN  onProgress(r, 0, Len(r.fragments))

reset(s) ==
    LET p == pause(s)
        r == [p EXCEPT !.currentIndex = 0,
                       !.isPlaying = FALSE,
                       !.isPaused = FALSE,
                       !.isErasing = FALSE,
                       !.drawnFragments = << >>,
                       !.currentFragmentColumn = 0,
                       !.currentFragmentDirection = 1,
                       !.canvas = {},
                       !.swept = << >>, !.picks = 0, !.lastSweep = << >>]
    IN  onProgress(r, 0, Len(r.fragments))

setSpeed(s, v) == updateFragmentsPerFrame([s EXCEPT !.speed = Max(1, Min(100, v))])

startErasing(s) ==
    IF s.isErasing THEN s
    ELSE animate([s EXCEPT !.isErasing = TRUE,
                           !.currentIndex = Len(s.fragments) - 1,
                           !.isPlaying = TRUE,
                           !.isPaused = FALSE,
                           !.swept = << >>, !.picks = 0], FALSE, 1)

RECURSIVE drawAllLoop(_)
\* the while loop of drawAll
drawAllLoop(s) ==
    IF s.currentIndex < Len(s.fragments)
    THEN drawAllLoop([drawFragment(s, s.currentIndex) EXCEPT !.currentIndex = @ + 1])
    ELSE s

\* drawAll reporting progress before its loop has run
drawAllStaleProgress(s) ==
    LET p == pause(s)
    IN  IF p.currentIndex < 0
        THEN [p EXCEPT !.threw = TRUE]
        ELSE LET d == [drawAllLoop(p) EXCEPT !.swept = << >>, !.picks = 0]
             IN  onComplete(onProgress(d, p.currentIndex, Len(d.fragments)), "all")

\* drawAll; with currentIndex = -1 the loop reads fragments[-1], undefined, and
\* drawFragment throws a TypeError on fragment.width
drawAll(s) ==
    LET p == pause(s)
    IN  IF p.currentIndex < 0
        THEN [p EXCEPT !.threw = TRUE]
        ELSE LET d == [drawAllLoop(p) EXCEPT !.swept = << >>, !.picks = 0]
             IN  onComplete(onProgress(d, d.currentIndex, Len(d.fragments)), "all")

getProgress(s) ==
    IF Len(s.fragments) = 0 THEN 0
    ELSE (200 * s.currentIndex + Len(s.fragments)) \div (2 * Len(s.fragments))

\* isComplete comparing with > in place of >=
isCompleteStrict(s) == s.currentIndex > Len(s.fragments)

isComplete(s) == s.currentIndex >= Len(s.fragments)

\* a frame callback that runs the frame without looking at isPaused
frameCallbackUnpaused(s, which, due, rnd) ==
    animate(Call(IF which = "latest"
                 THEN [s EXCEPT !.rafLatest = FALSE, !.isPaused = FALSE]
                 ELSE [s EXCEPT !.rafOrphans = @ - 1, !.isPaused = FALSE]), due, rnd)

\* a pending frame callback runs: the one animationId names, or an overwritten one
frameCallback(s, which, due, rnd) ==
    animate(Call(IF which = "latest"
                 THEN [s EXCEPT !.rafLatest = FALSE]
                 ELSE [s EXCEPT !.rafOrphans = @ - 1]), due, rnd)

CallbackPending(s, which) ==
    IF which = "latest" THEN s.rafLatest ELSE s.rafOrphans > 0

\* the step is a frame callback finding deltaTime >= 16.67 on an engine that is
\* playing and not paused: a processed tick
ProcessedTick == lastOp' = "tick" /\ pe'.processed

-----------------------------------------------------------------------------
(* The renderer driven through its public methods by any caller, with      *)
(* recording onProgress / onComplete listeners (specification Spec).       *)

\* the cycle observation after operation `op` took the engine to state t
NextCycle(op, t) ==
    CASE op \in {"load", "reset"} -> "fresh"
      [] op \in {"pause", "resume", "setSpeed"} -> IF cycle = "erased" THEN "none" ELSE cycle
      [] op = "start" -> IF cycle = "fresh" THEN "drawing"
                         ELSE IF cycle = "erased" THEN "none" ELSE cycle
      [] op = "startErasing" -> IF cycle = "drawn" THEN "erasing" ELSE "none"
      [] op = "tick" -> IF cycle = "drawing" /\ t.completed > 0 THEN "drawn"
                        ELSE IF cycle = "erasing" /\ t.completed > 0 THEN "erased"
                        ELSE IF cycle = "erased" THEN "none" ELSE cycle
      [] OTHER -> "none"

\* operation `op` takes the engine to state t
Step(op, t) ==
    /\ t.rafOrphans <= MaxOrphans
    /\ pe' = t
    /\ lastOp' = op
    /\ cycle' = NextCycle(op, t)

Load == \E f \in Sequences : Step("load", load(Call(pe), f)) /\ UNCHANGED <<app, sq, gen>>

Start == Step("start", start(Call(pe))) /\ UNCHANGED <<app, sq, gen>>

Pause == Step("pause", pause(Call(pe))) /\ UNCHANGED <<app, sq, gen>>

Resume == Step("resume", resume(Call(pe))) /\ UNCHANGED <<app, sq, gen>>

Reset == Step("reset", reset(Call(pe))) /\ UNCHANGED <<app, sq, gen>>

SetSpeed == \E v \in Speeds : Step("setSpeed", setSpeed(Call(pe), v)) /\ UNCHANGED <<app, sq, gen>>

StartErasing == Step("startErasing", startErasing(Call(pe))) /\ UNCHANGED <<app, sq, gen>>

DrawAll == Step("drawAll", drawAll(Call(pe))) /\ UNCHANGED <<app, sq, gen>>

\* a frame callback runs and processes a frame
TickFrame ==
    \E which \in {"latest", "orphan"}, rnd \in {1, -1} :
        /\ CallbackPending(pe, which)
        /\ Step("tick", frameCallback(pe, which, TRUE, rnd))
        /\ UNCHANGED <<app, sq, gen>>

\* a frame callback runs less than 16.67 ms after the last processed frame
TickSkip ==
    \E which \in {"latest", "orphan"} :
        /\ CallbackPending(pe, which)
        /\ Step("tick", frameCallback(pe, which, FALSE, 1))
        /\ UNCHANGED <<app, sq, gen>>

Idle == [ on |-> FALSE ]

Init ==
    /\ pe = constructor
    /\ lastOp = "new"
    /\ cycle = "none"
    /\ app = Idle
    /\ sq = Idle
    /\ gen = Idle

Next ==
    \/ Load
    \/ Start
    \/ Pause
    \/ Resume
    \/ Reset
    \/ SetSpeed
    \/ StartErasing
    \/ DrawAll
    \/ TickFrame
    \/ TickSkip

Spec == Init /\ [][Next]_vars

-----------------------------------------------------------------------------
(* An undisturbed draw pass: load() and start() while nothing plays, and the *)
(* frame callbacks; a pending callback eventually runs late enough to      *)
(* process a frame (specification DrawSpec).                               *)

DrawLoad == ~pe.isPlaying /\ Load

DrawStart == ~pe.isPlaying /\ Start

DrawNext ==
    \/ DrawLoad
    \/ DrawStart
    \/ TickFrame
    \/ TickSkip

DrawSpec == Init /\ [][DrawNext]_vars /\ WF_vars(TickFrame)

-----------------------------------------------------------------------------
(* StillCanvasApp: the engine driven by the application's buttons, keys,   *)
(* timers and image loads (specification AppSpec).                         *)

\* pending setTimeout callbacks of one kind: calls that would leave more are not taken
MaxTimers == 1

\* the fragment sequences analyze() hands to loadImage
AppSequences == { << >>, <<6>>, <<1, 1>> }

\* the application after its constructor: loadDefaultImage() has run up to its
\* first await (isLoading set, painter.pause() called)
appConstructor ==
    [ on |-> TRUE,
      isCircularMode |-> TRUE,
      isLoading |-> TRUE,
      autoStart |-> 0,       \* loadImage: setTimeout(start, 500)
      resetStart |-> 0,      \* resetPainting: setTimeout(start, 300)
      restart |-> 0,         \* onPaintingComplete: setTimeout(reset; start, 500)
      erase |-> 0 ]          \* onPaintingComplete: setTimeout(startErasing, 1000)

\* onPaintingComplete, reading the painter t as it is when onComplete is invoked
onPaintingComplete(a, t) ==
    IF a.isCircularMode
    THEN IF t.isErasing
         THEN [a EXCEPT !.restart = @ + 1]
         ELSE [a EXCEPT !.erase = @ + 1]
    ELSE a

\* the application after the engine call that left the painter in t
afterCall(a, t) == IF t.completed > 0 THEN onPaintingComplete(a, t) ELSE a

\* operation `op` takes the painter to t and the application to a
AppStep(op, t, a) ==
    /\ t.rafOrphans <= MaxOrphans
    /\ a.autoStart <= MaxTimers /\ a.resetStart <= MaxTimers
    /\ a.restart <= MaxTimers /\ a.erase <= MaxTimers
    /\ pe' = t
    /\ app' = a
    /\ lastOp' = op
    /\ UNCHANGED <<cycle, sq, gen>>

\* togglePause (the Pause button, the space key)
TogglePause ==
    IF pe.isPaused
    THEN AppStep("resume", resume(Call(pe)), app)
    ELSE AppStep("pause", pause(Call(pe)), app)

\* resetPainting (the Reset button, the R key)
ResetPainting ==
    AppStep("reset", reset(Call(pe)), [app EXCEPT !.resetStart = @ + 1])

CircularToggle ==
    AppStep("toggle", pe, [app EXCEPT !.isCircularMode = ~@])

\* selectCategory of another category: loadImage up to its first await
SelectCategory ==
    /\ ~app.isLoading
    /\ AppStep("loadImage", pause(Call(pe)), [app EXCEPT !.isLoading = TRUE])

\* loadImage after a successful analyze()
ImageLoaded ==
    /\ app.isLoading
    /\ \E f \in AppSequences :
          AppStep("load", load(Call(pe), f),
                  [app EXCEPT !.isLoading = FALSE, !.autoStart = @ + 1])

\* loadImage after every path failed
ImageFailed ==
    /\ app.isLoading
    /\ AppStep("loadFailed", pe, [app EXCEPT !.isLoading = FALSE])

\* the callback of a timer of kind k
timerCallback(k, s) ==
    CASE k = "autoStart" -> start(s)
      [] k = "resetStart" -> start(s)
      [] k = "restart" -> start(reset(s))
      [] k = "erase" -> startErasing(s)

\* a pending timer fires
TimerFires ==
    \E k \in {"autoStart", "resetStart", "restart", "erase"} :
        /\ app[k] > 0
        /\ AppStep(k, timerCallback(k, Call(pe)), [app EXCEPT ![k] = @ - 1])

AppTickFrame ==
    \E which \in {"latest", "orphan"}, rnd \in {1, -1} :
        /\ CallbackPending(pe, which)
        /\ LET t == frameCallback(pe, which, TRUE, rnd)
           IN  AppStep("tick", t, afterCall(app, t))

AppTickSkip ==
    \E which \in {"latest", "orphan"} :
        /\ CallbackPending(pe, which)
        /\ LET t == frameCallback(pe, which, FALSE, 1)
           IN  AppStep("tick", t, afterCall(app, t))

AppInit ==
    /\ pe = pause(constructor)
    /\ lastOp = "new"
    /\ cycle = "none"
    /\ app = appConstructor
    /\ sq = Idle
    /\ gen = Idle

AppNext ==
    \/ TogglePause
    \/ ResetPainting
    \/ CircularToggle
    \/ SelectCategory
    \/ ImageLoaded
    \/ ImageFailed
    \/ TimerFires
    \/ AppTickFrame
    \/ AppTickSkip

AppSpec == AppInit /\ [][AppNext]_vars

-----------------------------------------------------------------------------
(* StillCanvasApp.loadImage: the candidate paths tried one after the other *)
(* (specification LoadSpec).  A step is a stretch of the async function    *)
(* between two awaits; analyze() of the path awaited resolves or rejects.  *)

PathNames == {"default.png", "default.jpg", "default.gif"}

\* the arguments of loadImage: one path, or a list of paths
ImagePaths ==
    { "default.png", << >>, <<"default.jpg">>, <<"default.png", "default.jpg">>,
      <<"default.png", "default.jpg", "default.gif">> }

\* the application before loadDefaultImage()
loadConstructor ==
    [ on |-> TRUE,
      isLoading |-> FALSE,
      paths |-> << >>,
      index |-> 0,               \* the place in paths of the for loop
      tried |-> << >>,           \* the paths analyze() was called with, in call order
      successfulPath |-> "",
      loads |-> 0,               \* calls of painter.load() by this loadImage()
      error |-> [shown |-> FALSE, paths |-> << >>],    \* showError and the paths it names
      autoStart |-> 0 ]          \* pending setTimeout(start, 500)

\* the for loop arrives at paths[index]: analyze() is called and awaited, or
\* the loop is over without a result, lastError is thrown and showError names
\* paths.join(' or ')
tryPath(a) ==
    IF a.index < Len(a.paths)
    THEN [a EXCEPT !.tried = Append(@, a.paths[a.index + 1])]
    ELSE [a EXCEPT !.error = [shown |-> TRUE, paths |-> a.paths], !.isLoading = FALSE]

\* loadImage(imagePaths) up to its first await
loadImage(a, imagePaths) ==
    IF a.isLoading THEN a
    ELSE tryPath([a EXCEPT !.isLoading = TRUE,
                           !.paths = IF imagePaths \in Seq(PathNames)
                                     THEN imagePaths ELSE <<imagePaths>>,
                           !.index = 0,
                           !.tried = << >>,
                           !.successfulPath = "",
                           !.loads = 0,
                           !.error = [shown |-> FALSE, paths |-> << >>]])

\* the catch of the inner try: the loop goes on to the next path
analyzeRejected(a) == tryPath([a EXCEPT !.index = @ + 1])

\* the loop going on to the next path after a result, the last result loaded
analyzeResolvedNoBreak(a) ==
    IF a.index + 1 < Len(a.paths)
    THEN tryPath([a EXCEPT !.index = @ + 1])
    ELSE [a EXCEPT !.successfulPath = a.paths[a.index + 1],
                   !.loads = @ + 1,
                   !.autoStart = @ + 1,
                   !.isLoading = FALSE]

\* analyze() resolved: break, painter.load(), the auto-start timer, finally
analyzeResolved(a) ==
    [a EXCEPT !.successfulPath = a.paths[a.index + 1],
              !.loads = @ + 1,
              !.autoStart = @ + 1,
              !.isLoading = FALSE]

\* operation `op` takes the painter to t and the application to a
LoadStep(op, t, a) ==
    /\ t.rafOrphans <= MaxOrphans
    /\ a.autoStart <= MaxTimers
    /\ pe' = t
    /\ app' = a
    /\ lastOp' = op
    /\ UNCHANGED <<cycle, sq, gen>>

\* loadImage is called (selectCategory, loadDefaultImage): it returns at once
\* while another load is in progress, and pauses the painter otherwise
LoadImage ==
    \E imagePaths \in ImagePaths :
        LoadStep("loadImage", IF app.isLoading THEN pe ELSE pause(Call(pe)),
                 loadImage(app, imagePaths))

\* the awaited analyze() resolves with a fragment sequence
AnalyzeResolves ==
    /\ app.isLoading
    /\ \E f \in AppSequences :
          LET a == analyzeResolved(app)
          IN  LoadStep("resolved", IF a.loads > app.loads THEN load(Call(pe), f) ELSE pe, a)

\* the awaited analyze() rejects
AnalyzeRejects ==
    /\ app.isLoading
    /\ LoadStep("rejected", pe, analyzeRejected(app))

\* the auto-start timer fires
AutoStartFires ==
    /\ app.autoStart > 0
    /\ LoadStep("autoStart", start(Call(pe)), [app EXCEPT !.autoStart = @ - 1])

\* the constructor has called loadDefaultImage()
LoadInit ==
    /\ pe = pause(constructor)
    /\ lastOp = "new"
    /\ cycle = "none"
    /\ app = loadImage(loadConstructor, <<"default.png", "default.jpg">>)
    /\ sq = Idle
    /\ gen = Idle

LoadNext == LoadImage \/ AnalyzeResolves \/ AnalyzeRejects \/ AutoStartFires

LoadSpec == LoadInit /\ [][LoadNext]_vars

-----------------------------------------------------------------------------
(* ImageAnalyzer.sortFragmentsSpatially applied to a fragment set           *)
(* (specification SortSpec).                                               *)

\* longest fragment set handed to the sequencer
MaxFragments == 4

\* the fragments a set is drawn from: bounding box and mean brightness
FragmentPool ==
    { [x |-> 0,  y |-> 0, width |-> 2, height |-> 2, brightness |-> 200],
      [x |-> 10, y |-> 0, width |-> 2, height |-> 2, brightness |-> 50],
      [x |-> 4,  y |-> 0, width |-> 3, height |-> 2, brightness |-> 120],
      [x |-> 0,  y |-> 6, width |-> 2, height |-> 2, brightness |-> 200] }

\* the fragment sets: every sequence of at most MaxFragments pool fragments;
\* `id` is the identity of the fragment object (its place in the input)
FragmentSets ==
    UNION { { [i \in 1 .. n |-> [id |-> i, x |-> f[i].x, y |-> f[i].y,
                                 width |-> f[i].width, height |-> f[i].height,
                                 brightness |-> f[i].brightness]] :
              f \in [1 .. n -> FragmentPool] } : n \in 0 .. MaxFragments }

recentLimit == 20

\* Array.prototype.splice(index, 1) and shift(), indices from 0
splice(a, index) == [k \in 1 .. Len(a) - 1 |-> IF k <= index THEN a[k] ELSE a[k + 1]]

shift(a) == Tail(a)

RECURSIVE darkestFrom(_, _, _)
\* the search keeping the fragment whose brightness is lower
darkestFrom(fragments, i, brightestIndex) ==
    IF i < Len(fragments)
    THEN darkestFrom(fragments, i + 1,
                     IF fragments[i + 1].brightness < fragments[brightestIndex + 1].brightness
                     THEN i ELSE brightestIndex)
    ELSE brightestIndex

RECURSIVE brightestFrom(_, _, _)
\* the for loop of the brightest search, from index i, with the best index so far
brightestFrom(fragments, i, brightestIndex) ==
    IF i < Len(fragments)
    THEN brightestFrom(fragments, i + 1,
                       IF fragments[i + 1].brightness > fragments[brightestIndex + 1].brightness
                       THEN i ELSE brightestIndex)
    ELSE brightestIndex

\* the squared distance between the centres (x + width / 2, y + height / 2) of
\* two fragments, times 4; Math.sqrt is monotonic, the order is the same
distance4(frag1, frag2) ==
    LET dx == (2 * frag1.x + frag1.width) - (2 * frag2.x + frag2.width)
        dy == (2 * frag1.y + frag1.height) - (2 * frag2.y + frag2.height)
    IN  dx * dx + dy * dy

RECURSIVE nearestRecent(_, _, _, _, _)
\* the inner for loop of the closest search: remaining[i] = frag1 against the
\* recent fragments from j on; best is <<closestIndex, minDistance>>, a
\* negative minDistance stands for Infinity
nearestRecent(frag1, recentFragments, i, j, best) ==
    IF j >= Len(recentFragments) THEN best
    ELSE LET distance == distance4(frag1, recentFragments[j + 1])
         IN  IF best[2] < 0 \/ distance < best[2]
             THEN nearestRecent(frag1, recentFragments, i, j + 1, <<i, distance>>)
             ELSE nearestRecent(frag1, recentFragments, i, j + 1, best)

RECURSIVE closestFrom(_, _, _, _)
\* the outer for loop of the closest search, from remaining[i] on: the
\* closestIndex it ends with
closestFrom(remaining, recentFragments, i, best) ==
    IF i >= Len(remaining) THEN best[1]
    ELSE closestFrom(remaining, recentFragments, i + 1,
                     nearestRecent(remaining[i + 1], recentFragments, i, 0, best))

\* push without the shift over recentLimit
pushRecentUnbounded(recentFragments, nextFragment) == Append(recentFragments, nextFragment)

\* recentFragments.push(nextFragment) and the shift over recentLimit
pushRecent(recentFragments, nextFragment) ==
    LET r == Append(recentFragments, nextFragment)
    IN  IF Len(r) > recentLimit THEN shift(r) ELSE r

RECURSIVE sortLoop(_, _, _)
\* the while loop over remaining
sortLoop(sorted, remaining, recentFragments) ==
    IF Len(remaining) > 0
    THEN LET closestIndex == closestFrom(remaining, recentFragments, 0, <<-1, -1>>)
             at == IF closestIndex # -1 THEN closestIndex ELSE 0
             nextFragment == remaining[at + 1]
         IN  sortLoop(Append(sorted, nextFragment), splice(remaining, at),
                      pushRecent(recentFragments, nextFragment))
    ELSE sorted

\* fragments.filter((_, idx) => idx !== brightestIndex)
filterOut(fragments, brightestIndex) == splice(fragments, brightestIndex)

\* sortFragmentsSpatially with the brightest fragment left in remaining
sortFragmentsSpatiallyNoFilter(fragments) ==
    IF Len(fragments) = 0 THEN fragments
    ELSE LET brightestIndex == brightestFrom(fragments, 1, 0)
         IN  sortLoop(<<fragments[brightestIndex + 1]>>, fragments,
                      <<fragments[brightestIndex + 1]>>)

sortFragmentsSpatially(fragments) ==
    IF Len(fragments) = 0 THEN fragments
    ELSE LET brightestIndex == brightestFrom(fragments, 1, 0)
         IN  sortLoop(<<fragments[brightestIndex + 1]>>,
                      filterOut(fragments, brightestIndex),
                      <<fragments[brightestIndex + 1]>>)

\* a fragment set is about to be sequenced
SortInit ==
    /\ pe = constructor
    /\ lastOp = "new"
    /\ cycle = "none"
    /\ app = Idle
    /\ gen = Idle
    /\ \E f \in FragmentSets : sq = [ on |-> TRUE, returned |-> FALSE, fragments |-> f,
                                      sorted |-> << >> ]

\* the call returns
SortFragments ==
    /\ sq.on /\ ~sq.returned
    /\ sq' = [sq EXCEPT !.returned = TRUE, !.sorted = sortFragmentsSpatially(sq.fragments)]
    /\ UNCHANGED <<pe, lastOp, cycle, app, gen>>

SortNext == SortFragments

SortSpec == SortInit /\ [][SortNext]_vars

-----------------------------------------------------------------------------
(* ImageAnalyzer.sortFragmentsSpatially, one pass of its while loop per    *)
(* step (specification WindowSpec): the list of recent fragments is state. *)

\* a set longer than recentLimit: the brightest fragment at the origin, a
\* chain of 20 fragments leaving it along the x axis, a fragment above the
\* origin and a fragment past the end of the chain
LongFragments ==
    [i \in 1 .. 23 |->
        IF i = 1 THEN [id |-> i, x |-> 0, y |-> 0, width |-> 2, height |-> 2, brightness |-> 250]
        ELSE IF i = 2 THEN [id |-> i, x |-> 0, y |-> 15, width |-> 2, height |-> 2, brightness |-> 100]
        ELSE IF i = 3 THEN [id |-> i, x |-> 216, y |-> 0, width |-> 2, height |-> 2, brightness |-> 100]
        ELSE [id |-> i, x |-> 10 * (i - 3), y |-> 0, width |-> 2, height |-> 2, brightness |-> 100]]

\* sortFragmentsSpatially(fragments) before its first statement
sortCall(fragments) ==
    [ on |-> TRUE, returned |-> FALSE, fragments |-> fragments, sorted |-> << >>,
      remaining |-> << >>, recentFragments |-> << >> ]

\* the statements before the while loop; an empty set is returned as it is
sortBegin(q) ==
    IF Len(q.fragments) = 0 THEN [q EXCEPT !.returned = TRUE, !.sorted = q.fragments]
    ELSE LET brightestIndex == brightestFrom(q.fragments, 1, 0)
             remaining == filterOut(q.fragments, brightestIndex)
         IN  [q EXCEPT !.sorted = <<q.fragments[brightestIndex + 1]>>,
                       !.remaining = remaining,
                       !.recentFragments = <<q.fragments[brightestIndex + 1]>>,
                       !.returned = Len(remaining) = 0]

\* one pass of the while loop, and the return when it leaves remaining empty
sortIteration(q) ==
    LET closestIndex == closestFrom(q.remaining, q.recentFragments, 0, <<-1, -1>>)
        at == IF closestIndex # -1 THEN closestIndex ELSE 0
        nextFragment == q.remaining[at + 1]
    IN  [q EXCEPT !.sorted = Append(@, nextFragment),
                  !.remaining = splice(@, at),
                  !.recentFragments = pushRecent(@, nextFragment),
                  !.returned = Len(q.remaining) = 1]

WindowInit ==
    /\ pe = constructor
    /\ lastOp = "new"
    /\ cycle = "none"
    /\ app = Idle
    /\ gen = Idle
    /\ \E f \in FragmentSets \cup {LongFragments} : sq = sortCall(f)

SortBegin ==
    /\ sq.on /\ ~sq.returned /\ Len(sq.sorted) = 0
    /\ sq' = sortBegin(sq)
    /\ UNCHANGED <<pe, lastOp, cycle, app, gen>>

SortIteration ==
    /\ sq.on /\ ~sq.returned /\ Len(sq.sorted) > 0
    /\ sq' = sortIteration(sq)
    /\ UNCHANGED <<pe, lastOp, cycle, app, gen>>

WindowNext == SortBegin \/ SortIteration

WindowSpec == WindowInit /\ [][WindowNext]_vars

-----------------------------------------------------------------------------
(* ImageAnalyzer.createOrganicFragments: the seeded pass and the fill pass  *)
(* over an image of width x height pixels (specification GenSpec).         *)
(* A pixel is its index y * width + x.  Math.random() is an input: the     *)
(* jitter of the seeds, the stroke angle (0 or a quarter turn), and the    *)
(* neighbour shuffle (left in place).  The sine noise on the stroke's edge *)
(* is not computed: a pixel the noise can put on either side of the edge   *)
(* is in or out by the input `edge`.                                       *)

\* the images: <<width, height>>
Images == { <<1, 1>>, <<2, 3>>, <<4, 4>>, <<21, 20>>, <<146, 146>> }

\* Math.floor(Math.random() * step) at the seeds
Jitters == {0, 7}

targetFragmentCount == 500

Abs(a) == IF a < 0 THEN -a ELSE a

\* Math.max(50, Math.floor(avgFragmentSize * 0.8)), avgFragmentSize = totalPixels / 500
minSizeOf(totalPixels) == Max(50, (totalPixels * 4) \div (targetFragmentCount * 5))

\* Math.floor(avgFragmentSize * 1.2)
maxSizeOf(totalPixels) == (totalPixels * 6) \div (targetFragmentCount * 5)

\* Math.max(15, Math.floor(Math.sqrt(avgFragmentSize) * 0.9))
stepOf(totalPixels) ==
    Max(15, CHOOSE k \in 0 .. 15 :
                \/ k = 15 /\ k * k * 100 * targetFragmentCount <= 81 * totalPixels
                \/ /\ k * k * 100 * targetFragmentCount <= 81 * totalPixels
                   /\ (k + 1) * (k + 1) * 100 * targetFragmentCount > 81 * totalPixels)

\* the pixel at offset (rotatedX, rotatedY) in the stroke's frame passes the
\* brush test whatever the noise: |rotatedX| <= strokeLength and
\* |rotatedY| + 0.15 strokeWidth <= 0.85 strokeWidth (1 - 0.3 |rotatedX| / strokeLength),
\* with strokeLength = 2 sqrt(maxSize / pi), strokeWidth = 0.3 strokeLength, pi <= 22/7
strokeCore(rotatedX, rotatedY, maxSize) ==
    /\ 22 * rotatedX * rotatedX <= 28 * maxSize
    /\ 88 * (25 * Abs(rotatedY) + 2 * Abs(rotatedX)) * (25 * Abs(rotatedY) + 2 * Abs(rotatedX))
          <= 3087 * maxSize

\* the pixel passes the brush test for some noise at the most:
\* |rotatedX| <= strokeLength and |rotatedY| <= 1.3 strokeWidth, pi >= 3.14
strokeHull(rotatedX, rotatedY, maxSize) ==
    /\ 157 * rotatedX * rotatedX <= 200 * maxSize
    /\ 15700 * rotatedY * rotatedY <= 3042 * maxSize

\* the brush test of growOrganicRegion (the `continue` on distX, distY negated)
inStroke(dx, dy, maxSize, rnd) ==
    LET rotatedX == IF rnd.turned THEN dy ELSE dx
        rotatedY == IF rnd.turned THEN -dx ELSE dy
    IN  \/ strokeCore(rotatedX, rotatedY, maxSize)
        \/ rnd.edge /\ strokeHull(rotatedX, rotatedY, maxSize)

\* the 8 neighbours in the order of the literal
neighbors(x, y) ==
    << <<x + 1, y>>, <<x - 1, y>>, <<x, y + 1>>, <<x, y - 1>>,
       <<x + 1, y + 1>>, <<x - 1, y - 1>>, <<x + 1, y - 1>>, <<x - 1, y + 1>> >>

\* the queue entry <<x, y>> gets past every `continue` of the while loop
grows(width, height, seedX, seedY, visited, maxSize, rnd, pixels, x, y) ==
    /\ x >= 0 /\ x < width /\ y >= 0 /\ y < height
    /\ (y * width + x) \notin visited
    /\ (y * width + x) \notin pixels
    /\ inStroke(x - seedX, y - seedY, maxSize, rnd)

RECURSIVE growLoop(_, _, _, _, _, _, _, _, _)
\* the while loop of growOrganicRegion, from one pushed pixel to the next: the
\* entries shifted off the queue before entry k are the ones that `continue`;
\* `pixels` holds what this call has pushed and marked in the visited array
\* it was handed
growLoop(width, height, seedX, seedY, visited, maxSize, rnd, queue, pixels) ==
    IF Cardinality(pixels) < maxSize
       /\ \E k \in 1 .. Len(queue) :
             grows(width, height, seedX, seedY, visited, maxSize, rnd, pixels,
                   queue[k][1], queue[k][2])
    THEN LET k == CHOOSE k \in 1 .. Len(queue) :
                      /\ grows(width, height, seedX, seedY, visited, maxSize, rnd,
                               pixels, queue[k][1], queue[k][2])
                      /\ \A j \in 1 .. k - 1 :
                            ~grows(width, height, seedX, seedY, visited, maxSize, rnd,
                                   pixels, queue[j][1], queue[j][2])
             x == queue[k][1]
             y == queue[k][2]
         IN  growLoop(width, height, seedX, seedY, visited, maxSize, rnd,
                      SubSeq(queue, k + 1, Len(queue)) \o neighbors(x, y),
                      pixels \cup {y * width + x})
    ELSE pixels

\* growOrganicRegion: the pixels of the region; the visited array handed in
\* ends as visited \cup these pixels
growOrganicRegion(width, height, seedX, seedY, visited, maxSize, rnd) ==
    growLoop(width, height, seedX, seedY, visited, maxSize, rnd,
             << <<seedX, seedY>> >>, {})

\* the first pixel from `scan` on, in row order, that visited does not hold;
\* totalPixels when there is none
nextUnvisited(scan, visited, totalPixels) ==
    IF \A i \in scan .. totalPixels - 1 : i \in visited
    THEN totalPixels
    ELSE CHOOSE i \in scan .. totalPixels - 1 :
             i \notin visited /\ \A j \in scan .. i - 1 : j \in visited

\* createOrganicFragments up to its first seed
createOrganicFragments(width, height, rnd) ==
    [ on |-> TRUE,
      width |-> width,
      height |-> height,
      rnd |-> rnd,
      pass |-> "seeded",
      startX |-> 0,
      startY |-> 0,
      scan |-> 0,
      visited |-> {},
      fragments |-> << >> ]       \* [pass, pixels] in the order of the pushes

\* one iteration of the seeded pass: the seed at (startX, startY)
seedIteration(g) ==
    LET totalPixels == g.width * g.height
        step == stepOf(totalPixels)
        x == Min(g.width - 1, g.startX + g.rnd.jitter)
        y == Min(g.height - 1, g.startY + g.rnd.jitter)
        \* tempVisited is a copy: what the region marks is dropped with it
        region == growOrganicRegion(g.width, g.height, x, y, g.visited,
                                    maxSizeOf(totalPixels), g.rnd)
        pushed == IF Cardinality(region) >= minSizeOf(totalPixels)
                  THEN Append(g.fragments, [pass |-> "seeded", pixels |-> region])
                  ELSE g.fragments
        rowEnds == g.startX + step >= g.width
        passEnds == rowEnds /\ g.startY + step >= g.height
    IN  [g EXCEPT !.fragments = pushed,
                  !.startX = IF rowEnds THEN 0 ELSE @ + step,
                  !.startY = IF rowEnds THEN @ + step ELSE @,
                  !.pass = IF ~passEnds THEN "seeded"
                           ELSE IF nextUnvisited(0, g.visited, totalPixels) < totalPixels
                           THEN "fill" ELSE "filled",
                  !.scan = IF passEnds THEN nextUnvisited(0, g.visited, totalPixels) ELSE @]

\* the fill pass growing each region on a copy of visited, as the seeded pass does
fillIterationOnCopy(g) ==
    LET totalPixels == g.width * g.height
        region == growOrganicRegion(g.width, g.height, g.scan % g.width,
                                    g.scan \div g.width, g.visited,
                                    maxSizeOf(totalPixels), g.rnd)
        next == nextUnvisited(g.scan + 1, g.visited, totalPixels)
    IN  [g EXCEPT !.fragments = IF Cardinality(region) > 0
                                THEN Append(@, [pass |-> "fill", pixels |-> region])
                                ELSE @,
                  !.scan = next,
                  !.pass = IF next < totalPixels THEN "fill" ELSE "filled"]

\* one iteration of the fill pass that finds visited[idx] clear: the pixel at scan
fillIteration(g) ==
    LET totalPixels == g.width * g.height
        region == growOrganicRegion(g.width, g.height, g.scan % g.width,
                                    g.scan \div g.width, g.visited,
                                    maxSizeOf(totalPixels), g.rnd)
        visited == g.visited \cup region
        next == nextUnvisited(g.scan + 1, visited, totalPixels)
    IN  [g EXCEPT !.visited = visited,
                  !.fragments = IF Cardinality(region) > 0
                                THEN Append(@, [pass |-> "fill", pixels |-> region])
                                ELSE @,
                  !.scan = next,
                  !.pass = IF next < totalPixels THEN "fill" ELSE "filled"]

GenInit ==
    /\ pe = constructor
    /\ lastOp = "new"
    /\ cycle = "none"
    /\ app = Idle
    /\ sq = Idle
    /\ \E image \in Images, jitter \in Jitters, turned \in BOOLEAN, edge \in BOOLEAN :
          gen = createOrganicFragments(image[1], image[2],
                    [jitter |-> jitter, turned |-> turned, edge |-> edge])

SeedStep ==
    /\ gen.on /\ gen.pass = "seeded"
    /\ gen' = seedIteration(gen)
    /\ UNCHANGED <<pe, lastOp, cycle, app, sq>>

FillStep ==
    /\ gen.on /\ gen.pass = "fill"
    /\ gen' = fillIteration(gen)
    /\ UNCHANGED <<pe, lastOp, cycle, app, sq>>

GenNext == SeedStep \/ FillStep

GenSpec == GenInit /\ [][GenNext]_vars

-----------------------------------------------------------------------------
(* ImageAnalyzer.mergeSmallFragments applied to a fragment set, one round   *)
(* of its while loop per step (specification MergeSpec).  The fragments    *)
(* lie on a strip of two pixel rows, so every centre distance is a whole   *)
(* number of half pixels and the candidate scores compare exactly.  A      *)
(* pixel has one grey level; brightness is kept as total / count.          *)

\* longest fragment set handed to mergeSmallFragments
MaxMergeFragments == 3

\* the minSize argument
MergeMinSizes == {2, 4}

maxIterations == 5

\* the source image: the grey level of the pixel <<x, y>>
imageLevel(p) == 60 * ((p[1] + 2 * p[2]) % 5)

RECURSIVE SumLevels(_, _)
\* the sum of data[p] over the pixels p of S
SumLevels(data, S) ==
    IF S = {} THEN 0
    ELSE LET p == CHOOSE q \in S : TRUE
         IN  data[p] + SumLevels(data, S \ {p})

\* createFragmentFromRegion on the strip: the fragment of the pixels `pixels`
\* with the bounding box [x, x + width) x [0, 2); data holds the opaque
\* pixels of imageData, at their place in the image
stripFragment(x, width, pixels) ==
    LET data == [p \in pixels |-> imageLevel(p)]
    IN  [ x |-> x, y |-> 0, width |-> width, height |-> 2,
          total |-> SumLevels(data, pixels), count |-> Cardinality(pixels),
          data |-> data ]

MergePool ==
    { stripFragment(0, 1, { <<0, 0>> }),
      stripFragment(1, 1, { <<1, 0>>, <<1, 1>> }),
      stripFragment(1, 2, { <<1, 1>>, <<2, 0>> }),
      stripFragment(11, 1, { <<11, 1>> }),
      stripFragment(4, 3, { <<4, 0>>, <<5, 0>>, <<6, 0>>, <<4, 1>>, <<5, 1>>, <<6, 1>> }) }

MergeSets == UNION { [1 .. n -> MergePool] : n \in 0 .. MaxMergeFragments }

\* fragment.width * fragment.height
pixelCountOf(fragment) == fragment.width * fragment.height

\* pixelCount < minSize, the threshold without its factor 1.5
undersizedAtMinSize(fragment, minSize) == pixelCountOf(fragment) < minSize

\* pixelCount < targetMinSize, targetMinSize = minSize * 1.5
undersized(fragment, minSize) == 2 * pixelCountOf(fragment) < 3 * minSize

\* Math.sqrt of a square number
sqrtExact(n) == CHOOSE r \in 0 .. n : r * r = n

\* twice the distance between the centres of frag and frag2
distance2(frag, frag2) ==
    LET dx == (2 * frag.x + frag.width) - (2 * frag2.x + frag2.width)
        dy == (2 * frag.y + frag.height) - (2 * frag2.y + frag2.height)
    IN  sqrtExact(dx * dx + dy * dy)

\* 20 times the score brightnessDiff * 2 + distance * 0.1 of the candidate
\* frag2 for the group started by frag, as <<numerator, denominator>>
score20(frag, frag2) ==
    << 40 * Abs(frag.total * frag2.count - frag2.total * frag.count)
          + distance2(frag, frag2) * frag.count * frag2.count,
       frag.count * frag2.count >>

\* a.score - b.score < 0
scoreBefore(a, b) == a[1] * b[2] < b[1] * a[2]

\* the candidates of the group started by toMerge[i]: the indices j > i, in
\* rising order, that are not used, keep the group under maxGroupSize =
\* targetMinSize * 2.5 and lie nearer than targetMinSize * 3
RECURSIVE candidatesFrom(_, _, _, _, _)
candidatesFrom(toMerge, used, minSize, i, j) ==
    IF j >= Len(toMerge) THEN << >>
    ELSE LET frag == toMerge[i + 1]
             frag2 == toMerge[j + 1]
             rest == candidatesFrom(toMerge, used, minSize, i, j + 1)
         IN  IF \/ j \in used
                \/ 4 * (pixelCountOf(frag) + pixelCountOf(frag2)) > 15 * minSize
                \/ ~(distance2(frag, frag2) < 9 * minSize)
             THEN rest
             ELSE <<j>> \o rest

RECURSIVE sortCandidates(_, _, _)
\* candidates.sort((a, b) => a.score - b.score): a stable sort
sortCandidates(toMerge, i, candidates) ==
    IF Len(candidates) <= 1 THEN candidates
    ELSE LET first == candidates[1]
             rest == sortCandidates(toMerge, i, Tail(candidates))
             before == { k \in 1 .. Len(rest) :
                           scoreBefore(score20(toMerge[i + 1], toMerge[rest[k] + 1]),
                                       score20(toMerge[i + 1], toMerge[first + 1])) }
             \* rest is sorted: the candidates scoring lower than first are a prefix
             n == Cardinality(before)
         IN  SubSeq(rest, 1, n) \o <<first>> \o SubSeq(rest, n + 1, Len(rest))

RECURSIVE pushCandidates(_, _, _, _, _, _)
\* the for loop over the sorted candidates: group holds indices into toMerge
pushCandidates(toMerge, minSize, candidates, group, used, currentSize) ==
    IF candidates = << >> \/ 2 * currentSize >= 3 * minSize
    THEN [group |-> group, used |-> used]
    ELSE LET j == Head(candidates)
         IN  IF j \in used
             THEN pushCandidates(toMerge, minSize, Tail(candidates), group, used, currentSize)
             ELSE IF Len(group) + 1 >= 10
             THEN [group |-> Append(group, j), used |-> used \cup {j}]
             ELSE pushCandidates(toMerge, minSize, Tail(candidates), Append(group, j),
                                 used \cup {j}, currentSize + pixelCountOf(toMerge[j + 1]))

RECURSIVE groupsFrom(_, _, _, _)
\* the for loop over toMerge that forms the groups
groupsFrom(toMerge, minSize, i, used) ==
    IF i >= Len(toMerge) THEN << >>
    ELSE IF i \in used THEN groupsFrom(toMerge, minSize, i + 1, used)
    ELSE LET candidates == sortCandidates(toMerge, i,
                               candidatesFrom(toMerge, used \cup {i}, minSize, i, i + 1))
             g == pushCandidates(toMerge, minSize, candidates, <<i>>, used \cup {i},
                                 pixelCountOf(toMerge[i + 1]))
         IN  << [k \in 1 .. Len(g.group) |-> toMerge[g.group[k] + 1]] >>
                 \o groupsFrom(toMerge, minSize, i + 1, g.used)

RECURSIVE copyInto(_, _, _)
\* the copy loop of mergeFragmentGroup from fragment k of the group on: a
\* later fragment overwrites the pixel an earlier one wrote
copyInto(group, k, data) ==
    IF k > Len(group) THEN data
    ELSE copyInto(group, k + 1,
                  [p \in DOMAIN data \cup DOMAIN group[k].data |->
                      IF p \in DOMAIN group[k].data THEN group[k].data[p] ELSE data[p]])

RECURSIVE copiedBrightness(_, _)
\* totalBrightness after the copy loop from fragment k on: every opaque pixel
\* of every fragment adds its level, a pixel two fragments hold adds twice
copiedBrightness(group, k) ==
    IF k > Len(group) THEN 0
    ELSE SumLevels(group[k].data, DOMAIN group[k].data) + copiedBrightness(group, k + 1)

RECURSIVE copiedPixels(_, _)
\* pixelCount after the copy loop from fragment k on
copiedPixels(group, k) ==
    IF k > Len(group) THEN 0
    ELSE Cardinality(DOMAIN group[k].data) + copiedPixels(group, k + 1)

\* the bounding box of the group
groupBounds(group) ==
    LET minX == CHOOSE v \in { group[k].x : k \in 1 .. Len(group) } :
                    \A k \in 1 .. Len(group) : v <= group[k].x
        minY == CHOOSE v \in { group[k].y : k \in 1 .. Len(group) } :
                    \A k \in 1 .. Len(group) : v <= group[k].y
        maxX == CHOOSE v \in { group[k].x + group[k].width : k \in 1 .. Len(group) } :
                    \A k \in 1 .. Len(group) : v >= group[k].x + group[k].width
        maxY == CHOOSE v \in { group[k].y + group[k].height : k \in 1 .. Len(group) } :
                    \A k \in 1 .. Len(group) : v >= group[k].y + group[k].height
    IN  [x |-> minX, y |-> minY, width |-> maxX - minX, height |-> maxY - minY]

\* mergeFragmentGroup keeping the image data of the first fragment only
mergeFragmentGroupKeepsFirst(group) ==
    IF Len(group) = 1 THEN group[1]
    ELSE LET b == groupBounds(group)
         IN  [ x |-> b.x, y |-> b.y, width |-> b.width, height |-> b.height,
               total |-> group[1].total, count |-> group[1].count,
               data |-> group[1].data ]

\* mergeFragmentGroup of a group, which mergeSmallFragments never leaves
\* empty; brightness is total / count
mergeFragmentGroup(group) ==
    IF Len(group) = 1 THEN group[1]
    ELSE LET b == groupBounds(group)
         IN  [ x |-> b.x, y |-> b.y, width |-> b.width, height |-> b.height,
               total |-> IF copiedPixels(group, 1) > 0
                         THEN copiedBrightness(group, 1) ELSE group[1].total,
               count |-> IF copiedPixels(group, 1) > 0
                         THEN copiedPixels(group, 1) ELSE group[1].count,
               data |-> copyInto(group, 1, << >>) ]

\* one round of the while loop: the fragments it leaves, or `done` when no
\* fragment is undersized and the function returns currentFragments
mergeRound(currentFragments, minSize) ==
    LET merged == SelectSeq(currentFragments, LAMBDA f : ~undersized(f, minSize))
        toMerge == SelectSeq(currentFragments, LAMBDA f : undersized(f, minSize))
        groups == groupsFrom(toMerge, minSize, 0, {})
    IN  IF Len(toMerge) = 0
        THEN [done |-> TRUE, fragments |-> currentFragments]
        ELSE [done |-> FALSE,
              fragments |-> merged \o [k \in 1 .. Len(groups) |-> mergeFragmentGroup(groups[k])]]

\* mergeSmallFragments(fragments, minSize) before its first round
mergeSmallFragments(fragments, minSize) ==
    [ on |-> TRUE,
      pass |-> "merge",
      minSize |-> minSize,
      input |-> fragments,
      fragments |-> fragments,       \* currentFragments, the value returned in the end
      iteration |-> 0 ]

MergeInit ==
    /\ pe = constructor
    /\ lastOp = "new"
    /\ cycle = "none"
    /\ app = Idle
    /\ sq = Idle
    /\ \E f \in MergeSets, minSize \in MergeMinSizes : gen = mergeSmallFragments(f, minSize)

\* one pass of the while loop; the function returns from inside it when no
\* fragment is undersized, and after it when iteration reaches maxIterations
MergeRound ==
    /\ gen.on /\ gen.pass = "merge"
    /\ LET r == mergeRound(gen.fragments, gen.minSize)
       IN  gen' = IF r.done
                  THEN [gen EXCEPT !.pass = "returned"]
                  ELSE [gen EXCEPT !.fragments = r.fragments,
                                   !.iteration = @ + 1,
                                   !.pass = IF gen.iteration + 1 < maxIterations
                                            THEN "merge" ELSE "returned"]
    /\ UNCHANGED <<pe, lastOp, cycle, app, sq>>

MergeNext == MergeRound

MergeSpec == MergeInit /\ [][MergeNext]_vars

-----------------------------------------------------------------------------
(* The renderer's claims.                                                  *)

\* C5 (DrawSpec): once a loaded sequence plays and frames keep being processed,
\* with no other control call, the renderer reaches Complete (currentIndex at
\* the sequence length, not playing) and has invoked the completion
\* notification, whatever sweep directions are drawn.
C5_DrawPassCompletes ==
    pe.isPlaying ~> (~pe.isPlaying /\ isComplete(pe) /\ pe.pass = "draw")

\* C6 (DrawSpec): a fragment of width w completed by the sweep had each of its
\* w columns composited exactly once, in the order of the one direction drawn
\* for it.
C6_SweepExactlyOnce ==
    pe.lastSweep # << >> =>
        LET width == pe.lastSweep[2]
            direction == pe.lastSweep[3]
            swept == pe.lastSweep[4]
            picks == pe.lastSweep[5]
        IN  /\ picks = 1
            /\ Len(swept) = width
            /\ \A k \in 1 .. width :
                  swept[k] = IF direction = 1 THEN k - 1 ELSE width - k

\* C7 (AppSpec): in circular mode the completion of a draw pass schedules the
\* erase pass and the completion of an erase pass schedules the restart of
\* drawing (reset then start).
C7_PassesAlternate ==
    [][ (app.isCircularMode /\ lastOp' = "tick" /\ pe'.completed > 0) =>
            IF pe'.pass = "erase"
            THEN app'.restart = app.restart + 1 /\ app'.erase = app.erase
            ELSE app'.erase = app.erase + 1 /\ app'.restart = app.restart ]_vars

\* C8 (Spec): right after the erase pass of a draw-erase cycle has finished,
\* start() leaves the
\* renderer Playing from fragment 0 with a frame callback pending.
C8_StartAfterErase ==
    [][ ( /\ cycle = "erased" /\ pe.pass = "erase" /\ Len(pe.fragments) > 0
          /\ lastOp' = "start" ) =>
            /\ pe'.isPlaying /\ ~pe'.isPaused /\ ~pe'.isErasing
            /\ pe'.currentIndex = 0
            /\ (pe'.rafLatest \/ pe'.rafOrphans > 0) ]_vars

\* C9 (Spec): when a full draw pass followed by startErasing() has run to its
\* end, drawn-history is empty, currentIndex is 0, the erasing flag is cleared
\* and no fragment is visible.
C9_EraseLeavesBlank ==
    cycle = "erased" =>
        /\ pe.drawnFragments = << >>
        /\ pe.currentIndex = 0
        /\ ~pe.isErasing
        /\ pe.canvas = {}

C9_Witness == cycle = "erased" /\ Len(pe.fragments) = 5 /\ pe.pass = "erase"

\* C10 (Spec): drawAll() called mid-sequence of a draw pass composites every
\* fragment from currentIndex on, reports progress (total, total) and invokes
\* the completion notification exactly once.
C10_DrawAllMidSequence ==
    [][ ( /\ lastOp' = "drawAll"
          /\ ~pe.isErasing
          /\ pe.currentIndex > 0 /\ pe.currentIndex < Len(pe.fragments) ) =>
            /\ \A i \in pe.currentIndex .. Len(pe.fragments) - 1 :
                  Cells(pe, i) \subseteq pe'.canvas
            /\ pe'.currentIndex = Len(pe.fragments)
            /\ pe'.progress = <<Len(pe.fragments), Len(pe.fragments)>>
            /\ pe'.completed = 1 ]_vars

C10_Witness ==
    /\ lastOp = "drawAll" /\ pe.pass = "all" /\ ~pe.isErasing
    /\ Len(pe.drawnFragments) > 0
    /\ Len(pe.drawnFragments) < Len(pe.fragments)
    /\ pe.currentIndex = Len(pe.fragments)

-----------------------------------------------------------------------------
(* The sequencer's claims.                                                 *)

\* C3 (SortSpec): the sequence sortFragmentsSpatially returns is a permutation
\* of its input: same length, every input fragment present, none twice.
C3_SortIsPermutation ==
    sq.returned =>
        /\ Len(sq.sorted) = Len(sq.fragments)
        /\ \A i \in 1 .. Len(sq.fragments) :
              Cardinality({ k \in 1 .. Len(sq.sorted) : sq.sorted[k] = sq.fragments[i] }) = 1

C3_Witness ==
    /\ sq.returned /\ Len(sq.sorted) = 3
    /\ sq.sorted[1].id = 2 /\ sq.sorted[2].id = 3 /\ sq.sorted[3].id = 1

\* C4 (SortSpec): for a non-empty fragment set the first element of the
\* returned sequence has the maximum brightness of the set.
C4_BrightestFirst ==
    (sq.returned /\ Len(sq.fragments) > 0) =>
        \A i \in 1 .. Len(sq.fragments) :
            sq.sorted[1].brightness >= sq.fragments[i].brightness

C4_Witness ==
    /\ sq.returned /\ Len(sq.fragments) = 2
    /\ sq.fragments[1].brightness = 50 /\ sq.fragments[2].brightness = 200
    /\ sq.sorted[1].brightness = 200 /\ sq.sorted[2].brightness = 50

-----------------------------------------------------------------------------
(* The generator's claims.                                                 *)

\* C1 (GenSpec): after the seeded pass and the fill pass every pixel of the
\* image is a member of at least one fragment, for every image of at least
\* one pixel.
C1_EveryPixelCovered ==
    (gen.on /\ gen.pass = "filled") =>
        (0 .. gen.width * gen.height - 1)
            \subseteq UNION { gen.fragments[k].pixels : k \in 1 .. Len(gen.fragments) }

\* C2 (GenSpec): every fill-pass fragment is pixel-disjoint from every fragment
\* accepted in the seeded pass (stated for the fragment pushed last; every
\* fill fragment is the last one in the state after its push).
C2_FillAvoidsSeeded ==
    (gen.on /\ Len(gen.fragments) > 0 /\ gen.fragments[Len(gen.fragments)].pass = "fill") =>
        \A k \in 1 .. Len(gen.fragments) :
            gen.fragments[k].pass = "seeded" =>
                gen.fragments[k].pixels \cap gen.fragments[Len(gen.fragments)].pixels = {}

-----------------------------------------------------------------------------
(* The renderer's claims on its control calls.                             *)

\* C11 as stated (Spec): a processed tick never lowers currentIndex while
\* drawing and strictly lowers it while erasing.
C11_AsStated ==
    [][ ProcessedTick =>
            IF pe.isErasing
            THEN pe'.currentIndex < pe.currentIndex
            ELSE pe'.currentIndex >= pe.currentIndex ]_vars

\* C11 (Spec): a processed tick never lowers currentIndex while drawing; while
\* erasing it strictly lowers currentIndex unless it finishes the erase pass,
\* in which case it leaves currentIndex at 0 and the erasing flag cleared.
C11_IndexMonotonic ==
    [][ ProcessedTick =>
            IF pe.isErasing
            THEN \/ pe'.isErasing /\ pe'.currentIndex < pe.currentIndex
                 \/ ~pe'.isErasing /\ pe'.pass = "erase" /\ pe'.currentIndex = 0
            ELSE pe'.currentIndex >= pe.currentIndex ]_vars

C11_Witness ==
    /\ lastOp = "tick" /\ cycle = "erasing"
    /\ pe.isErasing /\ pe.isPlaying /\ ~pe.isPaused
    /\ pe.currentIndex >= 0 /\ pe.currentIndex + 1 < Len(pe.fragments)
    /\ pe.progress = <<pe.currentIndex + 1, Len(pe.fragments)>>

\* C12 (Spec): the progress notification (current, total) of a draw tick, an
\* erase tick, reset() or drawAll() has 0 <= current <= total and total the
\* length of the loaded sequence.
C12_ProgressInRange ==
    pe.progress # << >> =>
        /\ 0 <= pe.progress[1]
        /\ pe.progress[1] <= pe.progress[2]
        /\ pe.progress[2] = Len(pe.fragments)

C12_Witness ==
    /\ lastOp = "tick" /\ pe.pass = "erase"
    /\ pe.progress = <<0, 5>>

\* C13 (Spec): reset() in any state leaves currentIndex 0, sweep column 0,
\* direction +1, drawn-history empty, the playing / paused / erasing flags
\* cleared and no frame callback named by animationId, with the sequence and
\* the speed as they were; a second reset() right after changes nothing.
C13_ResetToIdle ==
    [][ lastOp' = "reset" =>
            /\ pe'.currentIndex = 0
            /\ pe'.currentFragmentColumn = 0
            /\ pe'.currentFragmentDirection = 1
            /\ pe'.drawnFragments = << >>
            /\ ~pe'.isPlaying /\ ~pe'.isPaused /\ ~pe'.isErasing
            /\ ~pe'.animationId /\ ~pe'.rafLatest
            /\ pe'.canvas = {}
            /\ pe'.fragments = pe.fragments
            /\ pe'.speed = pe.speed /\ pe'.fragmentsPerFrame = pe.fragmentsPerFrame
            /\ reset(Call(pe')) = pe' ]_vars

C13_Witness ==
    /\ lastOp = "reset" /\ pe.fragments = <<6, 2>> /\ pe.speed = 1
    /\ pe.rafOrphans = 1 /\ pe.currentIndex = 0 /\ pe.canvas = {}
    /\ pe.progress = <<0, 2>>

\* C14 (Spec): start() on a renderer that is not playing (Idle) or is paused,
\* a pause() before any start() included, leaves it playing, not paused, with
\* a frame callback scheduled, throws nothing and moves nothing of the
\* animation.
C14_StartEntersPlaying ==
    [][ (lastOp' = "start" /\ (~pe.isPlaying \/ pe.isPaused)) =>
            /\ pe'.isPlaying /\ ~pe'.isPaused
            /\ pe'.animationId /\ pe'.rafLatest
            /\ ~pe'.threw
            /\ pe'.currentIndex = pe.currentIndex
            /\ pe'.isErasing = pe.isErasing
            /\ pe'.canvas = pe.canvas ]_vars

C14_Witness ==
    /\ lastOp = "start" /\ cycle = "drawing"
    /\ pe.isPlaying /\ ~pe.isPaused /\ pe.rafLatest /\ pe.rafOrphans = 0
    /\ pe.fragments = <<6, 2>> /\ pe.currentIndex = 0 /\ pe.canvas = {}

\* C15 (Spec): while the renderer is paused (from pause() to the next start(),
\* resume(), startErasing(), load() or reset(); drawAll() pauses too), a frame
\* callback that still fires changes neither currentIndex, the sweep column,
\* drawn-history nor the surface, and schedules nothing.
C15_PausedTicksInert ==
    [][ (pe.isPaused /\ lastOp' = "tick") =>
            /\ pe'.currentIndex = pe.currentIndex
            /\ pe'.currentFragmentColumn = pe.currentFragmentColumn
            /\ pe'.currentFragmentDirection = pe.currentFragmentDirection
            /\ pe'.drawnFragments = pe.drawnFragments
            /\ pe'.canvas = pe.canvas
            /\ pe'.isPaused /\ ~pe'.rafLatest
            /\ pe'.progress = << >> /\ pe'.completed = 0 ]_vars

C15_Witness ==
    /\ lastOp = "tick" /\ pe.isPaused /\ pe.isPlaying /\ ~pe.isErasing
    /\ pe.currentFragmentColumn > 0 /\ pe.rafOrphans = 0 /\ ~pe.rafLatest

\* C16 (Spec): pause() and resume() leave currentIndex, the sweep column, the
\* sweep direction, the erasing mode, drawn-history and the surface as they
\* are; resume() on a paused renderer clears the pause and, when playing,
\* schedules a frame; resume() on a renderer that is not paused changes
\* nothing and schedules nothing.
C16_PauseResumeContinues ==
    [][ (lastOp' \in {"pause", "resume"}) =>
            /\ pe'.currentIndex = pe.currentIndex
            /\ pe'.currentFragmentColumn = pe.currentFragmentColumn
            /\ pe'.currentFragmentDirection = pe.currentFragmentDirection
            /\ pe'.isErasing = pe.isErasing
            /\ pe'.isPlaying = pe.isPlaying
            /\ pe'.drawnFragments = pe.drawnFragments
            /\ pe'.canvas = pe.canvas
            /\ (lastOp' = "pause" => pe'.isPaused /\ ~pe'.rafLatest)
            /\ (lastOp' = "resume" /\ pe.isPaused =>
                    ~pe'.isPaused /\ (pe.isPlaying => pe'.rafLatest))
            /\ (lastOp' = "resume" /\ ~pe.isPaused => pe' = Call(pe)) ]_vars

C16_Witness ==
    /\ lastOp = "resume" /\ pe.isPlaying /\ ~pe.isPaused /\ pe.isErasing
    /\ pe.fragments = <<6, 2>> /\ pe.currentIndex = 0
    /\ pe.rafLatest /\ pe.rafOrphans = 0 /\ ~pe.processed

\* C17 (Spec): start() on a renderer that has completed its draw pass, or that
\* is playing (drawing or erasing) and not paused, is a no-op: no field of the
\* animation changes and no frame callback is scheduled.
C17_StartNoOp ==
    [][ ( /\ lastOp' = "start"
          /\ ~pe.isPaused
          /\ Len(pe.fragments) > 0
          /\ (pe.isPlaying \/ cycle = "drawn") ) =>
            pe' = Call(pe) ]_vars

\* C18 (Spec): with an empty sequence loaded, the first processed tick after
\* start() reports progress (0, 0), invokes the completion notification once
\* and leaves the renderer complete and not playing; getProgress() is 0.
C18_EmptySequenceCompletes ==
    [][ (ProcessedTick /\ pe.fragments = << >> /\ ~pe.isErasing) =>
            /\ pe'.progress = <<0, 0>>
            /\ pe'.completed = 1 /\ pe'.pass = "draw"
            /\ ~pe'.isPlaying
            /\ isComplete(pe') /\ pe'.currentIndex = 0
            /\ getProgress(pe') = 0
            /\ ~pe'.threw ]_vars

C18_Witness ==
    /\ lastOp = "tick" /\ cycle = "drawn" /\ pe.fragments = << >>
    /\ pe.processed /\ pe.pass = "draw" /\ pe.progress = <<0, 0>>
    /\ ~pe.isPlaying /\ getProgress(pe) = 0

-----------------------------------------------------------------------------
(* The generator's claims on merging, checked under MergeSpec.              *)

\* C19: mergeSmallFragments runs at most maxIterations = 5 rounds and then
\* returns; every fragment it returns has a bounding-box area of at least
\* targetMinSize = minSize * 1.5, unless it returns because the fifth round
\* has run, and then the undersized fragments left are returned as they are.
C19_MergeBounded ==
    /\ gen.iteration <= 5
    /\ gen.pass = "merge" => gen.iteration < 5
    /\ gen.pass = "returned" =>
          \/ gen.iteration = 5
          \/ \A k \in 1 .. Len(gen.fragments) :
                 2 * gen.fragments[k].width * gen.fragments[k].height >= 3 * gen.minSize

\* The cap is reached: five rounds have run, one of them merged two
\* fragments, and a fragment under targetMinSize is returned.
C19_Witness ==
    /\ gen.pass = "returned" /\ gen.iteration = 5
    /\ Len(gen.fragments) < Len(gen.input)
    /\ \E k \in 1 .. Len(gen.fragments) :
           2 * gen.fragments[k].width * gen.fragments[k].height < 3 * gen.minSize

\* C20: merging keeps coverage.  A round drops no fragment: every fragment
\* before the round lies, bounding box and opaque pixels with their grey
\* level, in a fragment after it; and every opaque pixel of a fragment handed
\* to mergeSmallFragments is, with the same grey level, a pixel of a fragment
\* of the current set.
C20_MergeKeepsCoverage ==
    [][ LET pixelsKept(f, m) ==
                \A p \in DOMAIN f.data : p \in DOMAIN m.data /\ m.data[p] = f.data[p]
        IN
        /\ \A k \in 1 .. Len(gen.fragments) :
              \E m \in 1 .. Len(gen'.fragments) :
                  LET f == gen.fragments[k]
                      g == gen'.fragments[m]
                  IN  /\ g.x <= f.x /\ f.x + f.width <= g.x + g.width
                      /\ g.y <= f.y /\ f.y + f.height <= g.y + g.height
                      /\ pixelsKept(f, g)
        /\ \A k \in 1 .. Len(gen.input) :
              \E m \in 1 .. Len(gen'.fragments) :
                  pixelsKept(gen.input[k], gen'.fragments[m]) ]_vars

\* Three fragments, two of which share the pixel <<1, 1>>, were merged into
\* one fragment that holds their four pixels.
C20_Witness ==
    /\ gen.pass = "returned" /\ gen.iteration > 0
    /\ Len(gen.input) = 3 /\ Len(gen.fragments) = 1
    /\ DOMAIN gen.fragments[1].data = { <<0, 0>>, <<1, 0>>, <<1, 1>>, <<2, 0>> }
    /\ gen.fragments[1].count = 5

-----------------------------------------------------------------------------
(* The generator's claims on the fill pass, checked under GenSpec.         *)

\* C21: the fill-pass fragments are pairwise pixel-disjoint: no pixel is a
\* member of two fill-pass fragments (stated for the fragment pushed last
\* against every fill-pass fragment pushed before it; every fill fragment is
\* the last one in the state after its push).
C21_FillPairwiseDisjoint ==
    (gen.on /\ Len(gen.fragments) > 0 /\ gen.fragments[Len(gen.fragments)].pass = "fill") =>
        \A k \in 1 .. Len(gen.fragments) - 1 :
            gen.fragments[k].pass = "fill" =>
                gen.fragments[k].pixels \cap gen.fragments[Len(gen.fragments)].pixels = {}

\* The fill pass of the 146 x 146 image has pushed its third fragment: the
\* last three fragments are fill fragments of more than one pixel each, and
\* visited holds exactly their pixels.
C21_Witness ==
    /\ gen.on /\ gen.pass = "fill" /\ gen.width = 146
    /\ Len(gen.fragments) >= 3
    /\ \A k \in Len(gen.fragments) - 2 .. Len(gen.fragments) :
           gen.fragments[k].pass = "fill" /\ Cardinality(gen.fragments[k].pixels) > 1
    /\ (Len(gen.fragments) > 3 => gen.fragments[Len(gen.fragments) - 3].pass = "seeded")
    /\ gen.visited = UNION { gen.fragments[k].pixels :
                                k \in Len(gen.fragments) - 2 .. Len(gen.fragments) }

-----------------------------------------------------------------------------
(* The sequencer's claims on the order it returns, checked under SortSpec.  *)
(* processImage hands the painter sortFragmentsSpatially of the fragment   *)
(* set: sq.sorted.                                                          *)

\* C22: the sequence produced by processImage is sorted from lightest to
\* darkest: brightness is non-increasing along the whole sequence.
C22_LightestToDarkest ==
    (sq.on /\ sq.returned) =>
        \A k \in 1 .. Len(sq.sorted) - 1 :
            sq.sorted[k].brightness >= sq.sorted[k + 1].brightness

-----------------------------------------------------------------------------
(* The application's claims on loading, checked under LoadSpec.            *)

\* C23: loadImage tries the candidate paths strictly in list order: the paths
\* analyze() was called with are a prefix of the list.  When analyze()
\* resolves, painter.load() is called once, with the result of the path just
\* tried, no later path is tried and no error is shown.  When every path has
\* failed, painter.load() has not been called, the painter keeps its
\* fragments, and the error shown names the paths attempted, all of the list.
C23_FirstSuccessfulPath ==
    [][ (lastOp' \in {"loadImage", "resolved", "rejected"}) =>
          /\ app'.tried = SubSeq(app'.paths, 1, Len(app'.tried))
          /\ app'.loads <= 1
          /\ lastOp' = "resolved" =>
                /\ app'.tried = app.tried
                /\ app'.loads = 1
                /\ app'.successfulPath = app.tried[Len(app.tried)]
                /\ ~app'.isLoading /\ ~app'.error.shown
                /\ pe'.fragments \in AppSequences /\ pe'.currentIndex = 0
          /\ (app'.isLoading /\ ~(lastOp' = "loadImage" /\ app.isLoading)) =>
                /\ Len(app'.tried) = app'.index + 1
                /\ app'.loads = 0 /\ ~app'.error.shown
          /\ (~app'.isLoading /\ lastOp' # "resolved"
                /\ ~(lastOp' = "loadImage" /\ app' = app)) =>
                /\ app'.loads = 0
                /\ pe'.fragments = pe.fragments
                /\ app'.autoStart = app.autoStart
                /\ app'.tried = app'.paths
                /\ app'.error.shown /\ app'.error.paths = app'.tried ]_vars

\* The second of three paths analyzed: the first was tried before it, the
\* third was not tried, and the painter is loaded.
C23_Witness ==
    /\ lastOp = "resolved"
    /\ app.paths = <<"default.png", "default.jpg", "default.gif">>
    /\ app.tried = <<"default.png", "default.jpg">>
    /\ app.successfulPath = "default.jpg"
    /\ app.loads = 1 /\ ~app.isLoading
    /\ pe.fragments = <<1, 1>>

-----------------------------------------------------------------------------
(* The sequencer's claims on each pick, checked under WindowSpec.          *)

\* C24: a pass of the while loop appends an unplaced fragment whose smallest
\* centre distance to the last min(20, placed) placed fragments is the
\* smallest among the unplaced fragments, the earliest such fragment in the
\* order of remaining (the order of the input) winning ties; the list of
\* recent fragments never holds more than 20 entries and holds the fragments
\* placed last, in the order they were placed.
C24_NearestToRecent ==
    [][ (sq.on /\ Len(sq.sorted) > 0 /\ ~sq.returned) =>
          LET placed == sq.sorted
              n == Len(placed)
              window == { placed[k] : k \in Max(1, n - 19) .. n }
              unplaced == { sq.fragments[k] : k \in 1 .. Len(sq.fragments) }
                              \ { placed[k] : k \in 1 .. n }
              near(f) == CHOOSE d \in { distance4(f, w) : w \in window } :
                             \A w \in window : d <= distance4(f, w)
              next == sq'.sorted[n + 1]
              m == Len(sq'.sorted)
          IN  /\ Len(sq'.sorted) = n + 1
              /\ SubSeq(sq'.sorted, 1, n) = placed
              /\ next \in unplaced
              /\ \A f \in unplaced : near(next) <= near(f)
              /\ \A f \in unplaced : f.id < next.id => near(next) < near(f)
              /\ Len(sq'.recentFragments) <= 20
              /\ sq'.recentFragments = SubSeq(sq'.sorted, Max(1, m - 19), m) ]_vars

\* The set of 23 fragments is sequenced: when the 21 fragments of the chain
\* are placed the origin has left the list of recent fragments, and the pick
\* is the fragment past the end of the chain, not the one above the origin.
C24_Witness ==
    /\ sq.on /\ Len(sq.fragments) = 23 /\ Len(sq.sorted) = 22
    /\ sq.sorted[1].id = 1 /\ sq.sorted[22].id = 3
    /\ Len(sq.recentFragments) = 20
    /\ sq.recentFragments[1].id = 5 /\ sq.recentFragments[20].id = 3
    /\ Len(sq.remaining) = 1 /\ sq.remaining[1].id = 2

-----------------------------------------------------------------------------
(* The generator's claims on brightness, checked under MergeSpec.          *)

\* C25: the brightness of every fragment of the set, made by
\* createFragmentFromRegion or by mergeFragmentGroup, is the mean level of
\* its member pixels, each member pixel counted once, also when the merged
\* fragments overlap: total / count = (sum of data over its pixels) / (number
\* of its pixels).
C25_BrightnessIsMean ==
    gen.on =>
        \A k \in 1 .. Len(gen.fragments) :
            LET f == gen.fragments[k]
            IN  f.total * Cardinality(DOMAIN f.data)
                    = SumLevels(f.data, DOMAIN f.data) * f.count

-----------------------------------------------------------------------------
(* The renderer's claims on speed, scheduling and the erase pass, checked  *)
(* under Spec.                                                             *)

\* C26: setSpeed(v) clamps v into 1 .. 100 and sets fragmentsPerFrame to
\* max(1, floor(v / 5)), a value in 1 .. 20, and that count is the number of
\* fragments a processed tick handles, erasing as well as drawing (fewer only
\* when fewer are left), so that a higher speed ends a draw pass in fewer
\* ticks.  For drawing this is stated of sequences whose fragments are at
\* most 5 columns wide, which a tick sweeps whole.
C26_SpeedGovernsTicks ==
    [][ /\ lastOp' = "setSpeed" =>
              /\ pe'.speed \in 1 .. 100
              /\ pe'.fragmentsPerFrame = Max(1, pe'.speed \div 5)
              /\ pe'.fragmentsPerFrame \in 1 .. 20
        /\ (ProcessedTick /\ pe.isErasing) =>
              IF pe.currentIndex + 1 <= pe.fragmentsPerFrame
              THEN pe'.pass = "erase" /\ pe'.completed = 1
              ELSE pe'.currentIndex = pe.currentIndex - pe.fragmentsPerFrame
        /\ (ProcessedTick /\ ~pe.isErasing
              /\ \A k \in 1 .. Len(pe.fragments) : pe.fragments[k] <= 5) =>
              pe'.currentIndex = Min(Len(pe.fragments),
                                     pe.currentIndex + pe.fragmentsPerFrame) ]_vars

\* C27: under every sequence of load / start / pause / resume / reset /
\* startErasing / drawAll calls and frame callbacks, at most one scheduled
\* frame callback is pending at any time, and after pause() none is.
C27_SingleCallback ==
    /\ (IF pe.rafLatest THEN 1 ELSE 0) + pe.rafOrphans <= 1
    /\ lastOp = "pause" => ~pe.rafLatest /\ pe.rafOrphans = 0

-----------------------------------------------------------------------------
(* The application's claims on its timers, checked under AppSpec.          *)

\* C29: a delayed action takes effect only if the painter is still in the
\* situation that scheduled it.  The startErasing() scheduled after a draw
\* completion does not fire while a draw pass is in progress (one restarted
\* by Reset or by a new image), and the delayed start() and reset(); start()
\* do not act on a painter that has been paused since (no timer is scheduled
\* on a paused painter).
C29_TimersStillApply ==
    [][ /\ lastOp' = "erase" =>
              ~(pe.isPlaying /\ ~pe.isErasing /\ pe.currentIndex < Len(pe.fragments))
        /\ lastOp' \in {"autoStart", "resetStart", "restart"} => ~pe.isPaused ]_vars

-----------------------------------------------------------------------------
(* The renderer's claim on its index, checked under Spec.                  *)

\* C30: in every state between control calls and ticks
\* 0 <= currentIndex <= fragments.length, for an empty sequence and
\* throughout erasing too, and no call has failed on a fragment access.
C30_IndexInRange ==
    /\ 0 <= pe.currentIndex
    /\ pe.currentIndex <= Len(pe.fragments)
    /\ ~pe.threw

====
